---- MODULE Spec2Model ----
(***************************************************************************)
(* Model of src/main.py (PJ Cloud AI): the in-memory session registry      *)
(* (SESSIONS, SESSION_META, _last_cleanup), the throttled TTL sweep, and   *)
(* the /chat and /search handlers.                                         *)
(*                                                                         *)
(* Text is modelled as a sequence of tokens (words, the whitespace token   *)
(* " " and punctuation tokens); adjacent word tokens stand for words       *)
(* separated by one blank.  A Python list is an object on a heap, because  *)
(* a suspended /chat handler keeps a reference (`history`) to the list it  *)
(* read before the awaited web search, while other handlers may replace    *)
(* SESSIONS[session_id] by a new list.  The handlers run on one event      *)
(* loop: the only suspension point of /chat is `await ddg_search(...)`;    *)
(* the completion call is synchronous and does not yield.                  *)
(***************************************************************************)
EXTENDS Integers, Sequences, FiniteSets, TLC

\* ---------------------------------------------------------------- bounds
\* Number of /chat requests of a behaviour that get as far as the session
\* log (line 214); requests that return earlier are not limited.
MaxRequests == 3
\* The same, in the behaviours of SpecReg.
RegRequests == 1
\* Number of clock ticks after the first request can arrive.
MaxTicks == 2
\* The same, in the behaviours of SpecSweep: long enough for a session to
\* expire, be written again and be looked at by a later sweep.
SweepTicks == 4
\* Longest result page, in anchors, and largest limit, of the calls of
\* ddg_search in the behaviours of SpecFetch.
MaxAnchors == 3
MaxLimit == 3
\* src/main.py:53 sets MAX_TURNS = 20; the model runs it scaled down.
MAX_TURNS == 2
\* src/main.py:56 sets CLEANUP_INTERVAL_SECONDS = 60; scaled down, to the
\* least interval within which a request can come after a sweep at a
\* later time.
CLEANUP_INTERVAL_SECONDS == 2
\* src/main.py:55 reads SESSION_TTL_SECONDS from the environment
\* (default 6 hours); scaled down.
SESSION_TTL_SECONDS == 1

\* time.time() at the first request: _last_cleanup starts at 0.0 and the
\* epoch clock is far beyond one cleanup interval, so the first request
\* always sweeps.
StartTime == CLEANUP_INTERVAL_SECONDS

\* ------------------------------------------------------------- text model
WS == " "
Punct == {" ", "?", "!", ".", ","}

Lower(tok) ==
    CASE tok = "Find" -> "find"
      [] tok = "London" -> "london"
      [] tok = "Time" -> "time"
      [] OTHER -> tok

LowerSeq(s) == [i \in 1..Len(s) |-> Lower(s[i])]

RECURSIVE LStripSet(_, _)
LStripSet(s, chars) ==
    IF s # <<>> /\ Head(s) \in chars THEN LStripSet(Tail(s), chars) ELSE s

RECURSIVE RStripSet(_, _)
RStripSet(s, chars) ==
    IF s # <<>> /\ s[Len(s)] \in chars
    THEN RStripSet(SubSeq(s, 1, Len(s) - 1), chars) ELSE s

\* str.strip(): leading and trailing whitespace removed
Strip(s) == RStripSet(LStripSet(s, {WS}), {WS})

\* str.strip(" ?!.,")
StripPunct(s) == RStripSet(LStripSet(s, Punct), Punct)

\* `p in t` for strings: p occurs as a contiguous run
Occurs(p, t) ==
    \E i \in 1..(Len(t) - Len(p) + 1) : SubSeq(t, i, i + Len(p) - 1) = p

FirstOcc(p, t) ==
    CHOOSE i \in 1..(Len(t) - Len(p) + 1) :
        /\ SubSeq(t, i, i + Len(p) - 1) = p
        /\ \A j \in 1..(i - 1) : SubSeq(t, j, j + Len(p) - 1) # p

\* t.split(p, 1)[1]
AfterFirst(p, t) == SubSeq(t, FirstOcc(p, t) + Len(p), Len(t))

\* t.split(p, 1)[0]
BeforeFirst(p, t) == SubSeq(t, 1, FirstOcc(p, t) - 1)

\* str.split(): the words, whitespace dropped
RECURSIVE Words(_)
Words(s) ==
    IF s = <<>> THEN <<>>
    ELSE IF Head(s) = WS THEN Words(Tail(s))
    ELSE <<Head(s)>> \o Words(Tail(s))

CITY_TZ ==
    { <<"windhoek">>, <<"london">>, <<"berlin">>, <<"paris">>, <<"rome">>,
      <<"madrid">>, <<"lisbon">>, <<"new", "york">>, <<"los", "angeles">>,
      <<"chicago">>, <<"toronto">>, <<"dubai">>, <<"delhi">>, <<"tokyo">>,
      <<"singapore">>, <<"sydney">> }

TimePatterns ==
    << <<"current", "time", "in">>, <<"time", "in">>,
       <<"what", "time", "is", "it", "in">> >>

Aliases(place) ==
    CASE place = <<"nyc">> -> <<"new", "york">>
      [] place = <<"new", "york", "city">> -> <<"new", "york">>
      [] place = <<"la">> -> <<"los", "angeles">>
      [] place = <<"l.a.">> -> <<"los", "angeles">>
      [] OTHER -> <<>>

\* The absent value (Python None) of a text-valued result.
NoText == <<"<None>">>

PlaceAfter(p, t) ==
    LET raw == StripPunct(Strip(AfterFirst(p, t)))
        place == IF Occurs(<<",">>, raw) THEN Strip(BeforeFirst(<<",">>, raw))
                 ELSE raw
        parts == Words(place)
        Cand(n) == SubSeq(parts, 1, n)
    IN  IF Aliases(place) # <<>> THEN Aliases(place)
        ELSE IF Len(parts) >= 3 /\ Cand(3) \in CITY_TZ THEN Cand(3)
        ELSE IF Len(parts) >= 2 /\ Cand(2) \in CITY_TZ THEN Cand(2)
        ELSE IF Len(parts) >= 1 /\ Cand(1) \in CITY_TZ THEN Cand(1)
        ELSE place

extract_place_for_time_question(text) ==
    LET t == Strip(LowerSeq(text))
    IN  IF Occurs(TimePatterns[1], t) THEN PlaceAfter(TimePatterns[1], t)
        ELSE IF Occurs(TimePatterns[2], t) THEN PlaceAfter(TimePatterns[2], t)
        ELSE IF Occurs(TimePatterns[3], t) THEN PlaceAfter(TimePatterns[3], t)
        ELSE NoText

\* current_time_for: TRUE when a formatted time comes back.  tzok is the
\* outcome of the ZoneInfo computation, whose failure is swallowed to None.
current_time_for(place, tzok) ==
    Strip(LowerSeq(place)) \in CITY_TZ /\ tzok

Triggers ==
    { <<"search">>, <<"find">>, <<"look", "up">>, <<"lookup">>,
      <<"where", "can", "i">>, <<"official", "website">>,
      <<"official", "link">>, <<"directory">>, <<"providers">>,
      <<"clinic">>, <<"contact">>, <<"phone", "number">>, <<"address">>,
      <<"near", "me">>, <<"job">>, <<"jobs">>, <<"hiring">>, <<"vacancy">>,
      <<"vacancies">>, <<"stellenangebot">>, <<"stellenangebote">>,
      <<"reinigungskraft">>, <<"gebaeudereinigung">>, <<"bewerben">> }

should_search_web(user_msg) ==
    \E t \in Triggers : Occurs(t, LowerSeq(user_msg))

\* ------------------------------------------------------------ search fetch
\* soup.select("a.result__a"), filtered and capped as ddg_search does:
\* an anchor without title or href is skipped, the loop stops once
\* len(results) >= limit.
RECURSIVE ParseAnchors(_, _, _)
ParseAnchors(anchors, results, limit) ==
    IF anchors = <<>> THEN results
    ELSE LET a == Head(anchors)
         IN  IF a.title = "" \/ a.href = ""
             THEN ParseAnchors(Tail(anchors), results, limit)
             ELSE LET r2 == Append(results, [title |-> a.title, url |-> a.href])
                  IN  IF Len(r2) >= limit THEN r2
                      ELSE ParseAnchors(Tail(anchors), r2, limit)

\* ddg_search after a successful GET of the result page
ddg_search(page, limit) == ParseAnchors(page, <<>>, limit)

\* ddg_search as a whole, the GET having returned `page`: a query that is
\* blank after strip() gives [] without a request (lines 131-133).
ddg_search_of(query, page, limit) ==
    IF Strip(query) = <<>> THEN <<>> ELSE ddg_search(page, limit)

\* ------------------------------------------------------------- messages
PJ_SYSTEM_PROMPT == <<"You are PJ">>
WebHeader == "Web search results (use these links; do not invent links):"

SystemMsg == [role |-> "system", content |-> PJ_SYSTEM_PROMPT]
UserMsg(text) == [role |-> "user", content |-> text]
AssistantMsg(text) == [role |-> "assistant", content |-> text]

RECURSIVE ResultLines(_)
ResultLines(results) ==
    IF results = <<>> THEN <<>>
    ELSE <<Head(results).title, Head(results).url>> \o ResultLines(Tail(results))

\* web_context of chat(): None (NoText) unless the fetch gave results
WebContext(results) ==
    IF results = <<>> THEN NoText ELSE <<WebHeader>> \o ResultLines(results)

WebMsg(web_context) == [role |-> "system", content |-> web_context]

\* ------------------------------------------------------ Python containers
\* dict[k] = v
Put(d, k, v) == [x \in (DOMAIN d) \cup {k} |-> IF x = k THEN v ELSE d[x]]
\* dict.pop(k, None) for every k of ks
PopAll(d, ks) == [x \in (DOMAIN d) \ ks |-> d[x]]

Range(f) == {f[x] : x \in DOMAIN f}

\* Mutant: the slice keeps the oldest n instead of the latest n.
LastSlice_Oldest(s, n) == SubSeq(s, 1, IF n < Len(s) THEN n ELSE Len(s))

\* history[1:][-n:]: the slice starts at max(len - n, 0); -0 is 0
LastSlice(s, n) ==
    LET start == IF n = 0 \/ n > Len(s) THEN 0 ELSE Len(s) - n
    IN  SubSeq(s, start + 1, Len(s))

\* Mutant: the slice is taken of the whole list, the system message is
\* not pinned.
TrimHistory_NoPin(history) == LastSlice(history, MAX_TURNS * 2 + 1)

\* Mutant: the window is MAX_TURNS messages, not MAX_TURNS turns.
TrimHistory_Half(history) ==
    <<history[1]>> \o LastSlice(Tail(history), MAX_TURNS)

\* Mutant: the window is one message too wide.
TrimHistory_Wide(history) ==
    <<history[1]>> \o LastSlice(Tail(history), MAX_TURNS * 2 + 1)

\* lines 232-234: [system_msg] + history[1:][-MAX_TURNS * 2:]
TrimHistory(history) ==
    <<history[1]>> \o LastSlice(Tail(history), MAX_TURNS * 2)

\* Mutant: the web context is put at the head of the copy.
AssembleRequest_WebAtHead(history, web_context) ==
    [ stored |-> history,
      sent   |-> IF web_context # NoText
                 THEN <<WebMsg(web_context)>> \o history ELSE history ]

\* Mutant: messages_for_request is the stored list itself, not a copy.
AssembleRequest_Alias(history, web_context) ==
    LET l == IF web_context # NoText
             THEN Append(history, WebMsg(web_context)) ELSE history
    IN  [stored |-> l, sent |-> l]

\* line 237-239: messages_for_request is a copy, the web context goes
\* onto the copy only.  The pair is (list stored, list sent).
AssembleRequest(history, web_context) ==
    [ stored |-> history,
      sent   |-> IF web_context # NoText
                 THEN Append(history, WebMsg(web_context)) ELSE history ]

\* ---------------------------------------------------------------- inputs
\* Raw session ids and messages of the request bodies, before strip().
RawSids == { <<>>, <<WS>>, <<"s1">>, <<WS, "s2">> }

RawMsgs ==
    { <<WS>>,
      <<WS, "hello", WS>>,
      <<"Find", "clinic">>,
      <<"what", "Time", "is", "it", "in", "London", ",", "uk", "?">>,
      <<"time", "in", "atlantis">>,
      <<"time", "in">> }

\* resp.choices[0].message.content or ""
Replies == { <<"r1">> }

\* The handlers' pure functions on the inputs above, tabulated once.
StripOf == [x \in RawSids \cup RawMsgs |-> Strip(x)]
PlaceOf == [m \in RawMsgs |-> extract_place_for_time_question(Strip(m))]
SearchOf == [m \in RawMsgs |-> should_search_web(Strip(m))]

\* Result pages the search endpoint may return (anchors in page order).
A1 == [title |-> "t1", href |-> "u1"]
A2 == [title |-> "t2", href |-> "u2"]
NoTitle == [title |-> "", href |-> "u3"]
NoHref == [title |-> "t4", href |-> ""]
Pages == { <<>>, <<NoTitle, A1, NoHref, A2>> }

\* Outcome of the awaited GET: an exception (transport, status, timeout)
\* or a page.
FetchOutcomes == {[ok |-> FALSE, page |-> <<>>]} \cup
                 {[ok |-> TRUE, page |-> p] : p \in Pages}

\* Outcome of client.chat.completions.create: an exception or a reply.
CompletionOutcomes == {[ok |-> FALSE, reply |-> <<>>]} \cup
                      {[ok |-> TRUE, reply |-> r] : r \in Replies}

\* ----------------------------------------------------------------- state
VARIABLES
    now,            \* time.time()
    last_cleanup,   \* _last_cleanup
    SESSIONS,       \* dict: session id -> reference to a list on the heap
    SESSION_META,   \* dict: session id -> last_seen
    heap,           \* the list objects alive: reference -> list of messages
    api_key,        \* whether OPENAI_API_KEY is set in the environment
    handlers,       \* the /chat handlers suspended in `await ddg_search`:
                    \* request number -> the handler's locals
    nreq,           \* number of /chat requests that reached line 214
    lastOk,         \* per session id: <<user message, assistant reply>> of
                    \* the request whose successful return was the latest
                    \* write of that session's log (<<>>: none)
    last            \* what the handler run that returned last did

vars == <<now, last_cleanup, SESSIONS, SESSION_META, heap, api_key, handlers,
          nreq, lastOk, last>>

SidKeys == {Strip(s) : s \in RawSids} \ {<<>>}

\* The reference of a freshly built list: the first one not in use.
NewRef(H) == CHOOSE o \in 1..(Cardinality(DOMAIN H) + 1) : o \notin DOMAIN H

\* Reference counting: a list lives while SESSIONS or a suspended handler's
\* `history` refers to it.
Collect(H, S, hs) ==
    LET live == Range(S) \cup {hs[r].history : r \in DOMAIN hs}
    IN  [o \in (DOMAIN H) \cap live |-> H[o]]

\* ----------------------------------------------------------------- sweep
\* Mutant: the sweep is not throttled, every request scans.
Sweep_NoThrottle(S, M, lc, t) ==
    LET dead == {sid \in DOMAIN M : t - M[sid] > SESSION_TTL_SECONDS}
    IN  [S |-> PopAll(S, dead), M |-> PopAll(M, dead), lc |-> t,
         dead |-> dead, ran |-> TRUE]

\* Mutant: the scan pops while it iterates and stops at the first pop,
\* before the stamp.
Sweep_InPlace(S, M, lc, t) ==
    LET dead == {sid \in DOMAIN M : t - M[sid] > SESSION_TTL_SECONDS}
        one == IF dead = {} THEN {} ELSE {CHOOSE sid \in dead : TRUE}
    IN  IF t - lc < CLEANUP_INTERVAL_SECONDS
        THEN [S |-> S, M |-> M, lc |-> lc, dead |-> {}, ran |-> FALSE]
        ELSE [S |-> PopAll(S, one), M |-> PopAll(M, one),
              lc |-> IF dead = {} THEN t ELSE lc,
              dead |-> one, ran |-> TRUE]

\* _cleanup_sessions_if_needed at time t
Sweep(S, M, lc, t) ==
    IF t - lc < CLEANUP_INTERVAL_SECONDS
    THEN [S |-> S, M |-> M, lc |-> lc, dead |-> {}, ran |-> FALSE]
    ELSE LET dead == {sid \in DOMAIN M : t - M[sid] > SESSION_TTL_SECONDS}
         IN  [S |-> PopAll(S, dead), M |-> PopAll(M, dead), lc |-> t,
              dead |-> dead, ran |-> TRUE]

\* ------------------------------------------------------------------ chat
\* Mutant: a failed completion rolls the user message back.
ChatTail_Rollback(S, M, H, t, sid, msg, hist, web_context, comp) ==
    LET appended == Append(H[hist], UserMsg(msg))
        H1 == [H EXCEPT ![hist] = appended]
        ref == NewRef(H1)
        asm == AssembleRequest(TrimHistory(appended), web_context)
        H2 == Put(H1, ref, asm.stored)
        S1 == Put(S, sid, ref)
    IN  IF comp.ok
        THEN [ S |-> S1,
               M |-> Put(M, sid, t),
               H |-> [H2 EXCEPT ![S1[sid]] = Append(@, AssistantMsg(comp.reply))],
               appended |-> appended, sent |-> asm.sent, outcome |-> "ok",
               reply |-> comp.reply ]
        ELSE [ S |-> S, M |-> M, H |-> H,
               appended |-> appended, sent |-> asm.sent, outcome |-> "500_api",
               reply |-> <<>> ]

\* Lines 229-252 of chat(), run without suspension: append the user
\* message to the list `history` refers to, trim into a new list, store
\* it, assemble and send the request, append the reply.
\* hist is the handler's `history` reference, comp the completion outcome.
ChatTail(S, M, H, t, sid, msg, hist, web_context, comp) ==
    LET appended == Append(H[hist], UserMsg(msg))
        H1 == [H EXCEPT ![hist] = appended]
        ref == NewRef(H1)
        asm == AssembleRequest(TrimHistory(appended), web_context)
        H2 == Put(H1, ref, asm.stored)
        S1 == Put(S, sid, ref)
    IN  IF comp.ok
        THEN [ S |-> S1,
               M |-> Put(M, sid, t),
               H |-> [H2 EXCEPT ![S1[sid]] = Append(@, AssistantMsg(comp.reply))],
               appended |-> appended, sent |-> asm.sent, outcome |-> "ok",
               reply |-> comp.reply ]
        ELSE [ S |-> S1, M |-> M, H |-> H2,
               appended |-> appended, sent |-> asm.sent, outcome |-> "500_api",
               reply |-> <<>> ]

\* The observation of a handler run that has returned.
Done(kind, sid, outcome) ==
    [ kind |-> kind, sid |-> sid, outcome |-> outcome,
      id |-> 0, msg |-> <<>>, reply |-> <<>>,
      appended |-> <<>>, sent |-> <<>>, apiCalls |-> 0, fetches |-> 0,
      fetchFailed |-> FALSE, prev |-> <<>>, concurrent |-> {} ]

ClearDead(lo, dead) == [k \in DOMAIN lo |-> IF k \in dead THEN <<>> ELSE lo[k]]

\* Mutant: the empty message is looked at before the session id.
Route_MsgFirst(session_id, msg, place, key) ==
    IF msg = <<>> THEN "prompt"
    ELSE IF session_id = <<>> THEN "400"
    ELSE IF place # NoText /\ place # <<>> THEN "time"
    ELSE IF ~key THEN "500_key"
    ELSE "normal"

\* Mutant: the world-clock shortcut is missing.
Route_NoTime(session_id, msg, place, key) ==
    IF session_id = <<>> THEN "400"
    ELSE IF msg = <<>> THEN "prompt"
    ELSE IF ~key THEN "500_key"
    ELSE "normal"

\* Mutant: the API key is not looked at before the session log.
Route_NoKey(session_id, msg, place, key) ==
    IF session_id = <<>> THEN "400"
    ELSE IF msg = <<>> THEN "prompt"
    ELSE IF place # NoText /\ place # <<>> THEN "time"
    ELSE "normal"

\* The order of the checks of chat(), lines 190-209: which way a request
\* goes.  place is what extract_place_for_time_question returned, key
\* whether the API key is set.
Route(session_id, msg, place, key) ==
    IF session_id = <<>> THEN "400"
    ELSE IF msg = <<>> THEN "prompt"
    ELSE IF place # NoText /\ place # <<>> THEN "time"
    ELSE IF ~key THEN "500_key"
    ELSE "normal"

\* lines 214-216: the list of the session, made first when the id has
\* none; history is the reference to it.
GetOrCreate(S, H, session_id) ==
    IF session_id \in DOMAIN S
    THEN [S |-> S, H |-> H, history |-> S[session_id], fresh |-> FALSE]
    ELSE LET ref == NewRef(H)
         IN  [S |-> Put(S, session_id, ref), H |-> Put(H, ref, <<SystemMsg>>),
              history |-> ref, fresh |-> TRUE]

\* chat() from its entry to its first suspension or to its return.
\* (\E x \in {e} binds x to the value of e, computed once.  The conjuncts
\* of an action are not in execution order: the sweep of line 186 comes
\* first in every branch, and sw is the registry it leaves.)
ChatStart(rawsid, rawmsg) ==
    LET msg == StripOf[rawmsg]
        session_id == StripOf[rawsid]
        place == PlaceOf[rawmsg]
        route == Route(session_id, msg, place, api_key)
        \* a return before line 214; touch: line 193 has been reached
        Early(touch, outcome) ==
            /\ last' = Done("chat", session_id, outcome)
            /\ UNCHANGED <<handlers, nreq>>
            /\ \E sw \in {Sweep(SESSIONS, SESSION_META, last_cleanup, now)} :
                   /\ last_cleanup' = sw.lc
                   /\ SESSIONS' = sw.S
                   /\ SESSION_META' = IF touch THEN Put(sw.M, session_id, now)
                                      ELSE sw.M
                   /\ lastOk' = ClearDead(lastOk, sw.dead)
                   /\ heap' = Collect(heap, sw.S, handlers)
    IN  /\ UNCHANGED <<now, api_key>>
        /\ IF route = "400" THEN Early(FALSE, "400")
           ELSE IF route = "prompt" THEN Early(TRUE, "prompt")
           ELSE IF route = "time"
           THEN \E tzok \in BOOLEAN :
                    IF current_time_for(place, tzok) THEN Early(TRUE, "time")
                    ELSE Early(TRUE, "time_help")
           ELSE IF route = "500_key" THEN Early(TRUE, "500_key")
           ELSE
             /\ nreq < MaxRequests
             /\ nreq' = nreq + 1
             /\ \E sw \in {Sweep(SESSIONS, SESSION_META, last_cleanup, now)} :
                \E M1 \in {Put(sw.M, session_id, now)} :
                \E lo \in {ClearDead(lastOk, sw.dead)} :
                \E g \in {GetOrCreate(sw.S, heap, session_id)} :
                LET id == nreq + 1
                    locals == [ sid |-> session_id, msg |-> msg,
                                history |-> g.history,
                                prev |-> lo[session_id],
                                concurrent |-> DOMAIN handlers ]
                IN  /\ last_cleanup' = sw.lc
                    /\ IF SearchOf[rawmsg]
                       THEN /\ handlers' = Put(handlers, id, locals)
                            /\ SESSIONS' = g.S
                            /\ SESSION_META' = M1
                            /\ heap' = Collect(g.H, g.S, handlers')
                            /\ lastOk' = lo
                            /\ UNCHANGED last
                       ELSE \E comp \in CompletionOutcomes :
                            \E f \in {ChatTail(g.S, M1, g.H, now, session_id,
                                               msg, g.history, NoText, comp)} :
                                /\ UNCHANGED handlers
                                /\ SESSIONS' = f.S
                                /\ SESSION_META' = f.M
                                /\ heap' = Collect(f.H, f.S, handlers)
                                /\ lastOk' = [lo EXCEPT ![session_id] =
                                      IF f.outcome = "ok"
                                      THEN <<UserMsg(msg), AssistantMsg(f.reply)>>
                                      ELSE <<>>]
                                /\ last' =
                                     [Done("chat", session_id, f.outcome) EXCEPT
                                        !.id = id, !.msg = msg, !.reply = f.reply,
                                        !.appended = f.appended, !.sent = f.sent,
                                        !.apiCalls = 1, !.prev = locals.prev,
                                        !.concurrent = locals.concurrent]

\* Mutant: the await of line 222 is not inside a try: a failed fetch ends
\* the request as a server error before line 229.
ChatResume_FetchRaises(r, fetch, comp) ==
    /\ r \in DOMAIN handlers
    /\ LET h == handlers[r]
           results == IF fetch.ok THEN ddg_search(fetch.page, 5) ELSE <<>>
       IN  IF ~fetch.ok
           THEN /\ handlers' = [x \in (DOMAIN handlers) \ {r} |-> handlers[x]]
                /\ heap' = Collect(heap, SESSIONS, handlers')
                /\ last' = [Done("chat", h.sid, "500_search") EXCEPT
                               !.id = r, !.msg = h.msg, !.fetches = 1,
                               !.fetchFailed = TRUE, !.prev = h.prev,
                               !.concurrent = h.concurrent]
                /\ UNCHANGED <<SESSIONS, SESSION_META, lastOk>>
           ELSE
           \E f \in {ChatTail(SESSIONS, SESSION_META, heap, now, h.sid, h.msg,
                              h.history, WebContext(results), comp)} :
           /\ handlers' = [x \in (DOMAIN handlers) \ {r} |-> handlers[x]]
           /\ SESSIONS' = f.S
           /\ SESSION_META' = f.M
           /\ heap' = Collect(f.H, f.S, handlers')
           /\ lastOk' = [lastOk EXCEPT ![h.sid] =
                            IF f.outcome = "ok"
                            THEN <<UserMsg(h.msg), AssistantMsg(f.reply)>>
                            ELSE <<>>]
           /\ last' = [Done("chat", h.sid, f.outcome) EXCEPT
                          !.id = r, !.msg = h.msg, !.reply = f.reply,
                          !.appended = f.appended, !.sent = f.sent,
                          !.apiCalls = 1, !.fetches = 1,
                          !.fetchFailed = ~fetch.ok, !.prev = h.prev,
                          !.concurrent = h.concurrent]
    /\ UNCHANGED <<now, last_cleanup, api_key, nreq>>

\* chat() resumed after `await ddg_search(msg, limit=5)`, to its return.
ChatResume(r, fetch, comp) ==
    /\ r \in DOMAIN handlers
    /\ LET h == handlers[r]
           results == IF fetch.ok THEN ddg_search(fetch.page, 5) ELSE <<>>
       IN  \E f \in {ChatTail(SESSIONS, SESSION_META, heap, now, h.sid, h.msg,
                              h.history, WebContext(results), comp)} :
           /\ handlers' = [x \in (DOMAIN handlers) \ {r} |-> handlers[x]]
           /\ SESSIONS' = f.S
           /\ SESSION_META' = f.M
           /\ heap' = Collect(f.H, f.S, handlers')
           /\ lastOk' = [lastOk EXCEPT ![h.sid] =
                            IF f.outcome = "ok"
                            THEN <<UserMsg(h.msg), AssistantMsg(f.reply)>>
                            ELSE <<>>]
           /\ last' = [Done("chat", h.sid, f.outcome) EXCEPT
                          !.id = r, !.msg = h.msg, !.reply = f.reply,
                          !.appended = f.appended, !.sent = f.sent,
                          !.apiCalls = 1, !.fetches = 1,
                          !.fetchFailed = ~fetch.ok, !.prev = h.prev,
                          !.concurrent = h.concurrent]
    /\ UNCHANGED <<now, last_cleanup, api_key, nreq>>

\* ---------------------------------------------------------------- search
Queries == { <<WS>>, <<"jobs">> }

\* search(): the sweep is all it does to the registry; the validation of q
\* and the fetch read and write nothing of it.
Search(q) ==
    /\ \E sw \in {Sweep(SESSIONS, SESSION_META, last_cleanup, now)} :
           /\ last_cleanup' = sw.lc
           /\ SESSIONS' = sw.S
           /\ SESSION_META' = sw.M
           /\ heap' = Collect(heap, sw.S, handlers)
           /\ lastOk' = ClearDead(lastOk, sw.dead)
    /\ UNCHANGED <<now, api_key, handlers, nreq, last>>

\* ----------------------------------------------------------------- clock
\* time.time() moves on, up to n ticks after the first request.
TickWithin(n) ==
    /\ now < StartTime + n
    /\ now' = now + 1
    /\ UNCHANGED <<last_cleanup, SESSIONS, SESSION_META, heap, api_key,
                   handlers, nreq, lastOk, last>>

Tick == TickWithin(MaxTicks)

\* ------------------------------------------------------------ behaviours
Init ==
    /\ now = StartTime
    /\ last_cleanup = 0
    /\ SESSIONS = [k \in {} |-> 0]
    /\ SESSION_META = [k \in {} |-> 0]
    /\ heap = [o \in {} |-> <<>>]
    /\ api_key \in BOOLEAN
    /\ handlers = [r \in {} |-> 0]
    /\ nreq = 0
    /\ lastOk = [k \in SidKeys |-> <<>>]
    /\ last = Done("none", <<>>, "none")

ChatStartStep(sids, msgs) ==
    \E rawsid \in sids, rawmsg \in msgs : ChatStart(rawsid, rawmsg)

ChatResumeStep ==
    \E r \in 1..MaxRequests, fetch \in FetchOutcomes,
       comp \in CompletionOutcomes : ChatResume(r, fetch, comp)

SearchStep ==
    \E q \in Queries : Search(q)

\* Conversations on one session id: the messages without a time phrase,
\* one that triggers the web search and one that does not.
NormalMsgs == {m \in RawMsgs : StripOf[m] # <<>> /\ PlaceOf[m] = NoText}

NextLog ==
    \/ ChatStartStep({<<"s1">>}, NormalMsgs)
    \/ ChatResumeStep
    \/ SearchStep
    \/ Tick

InitLog == Init /\ api_key

SpecLog == InitLog /\ [][NextLog]_vars

\* The registry: every kind of request on every session id, with at most
\* RegRequests of them on the NORMAL path.
NextReg ==
    \/ ChatStartStep(RawSids, RawMsgs) /\ nreq' <= RegRequests
    \/ ChatResumeStep
    \/ SearchStep
    \/ Tick

SpecReg == Init /\ [][NextReg]_vars

\* ddg_search alone, as a function of its arguments and of the page the
\* GET returns: every page of at most MaxAnchors anchors, each with or
\* without title and href, and every limit from 0 to MaxLimit (no list
\* is shorter than a negative limit).
AnchorKinds == {A1, A2, NoTitle, NoHref}
AllPages == UNION {[1..n -> AnchorKinds] : n \in 0..MaxAnchors}
Limits == 0..MaxLimit

FetchCall(query, page, limit) ==
    /\ last' = [ kind |-> "ddg_search", query |-> query, page |-> page,
                 limit |-> limit,
                 results |-> ddg_search_of(query, page, limit) ]
    /\ UNCHANGED <<now, last_cleanup, SESSIONS, SESSION_META, heap, api_key,
                   handlers, nreq, lastOk>>

NextFetch ==
    \E query \in Queries, page \in AllPages, limit \in Limits :
        FetchCall(query, page, limit)

SpecFetch == InitLog /\ [][NextFetch]_vars

\* The sweep over a longer time: NORMAL-path requests (at most RegRequests)
\* and requests without a message on every session id, /search requests
\* and SweepTicks clock ticks.
SweepMsgs == {m \in RawMsgs : PlaceOf[m] = NoText}

NextSweep ==
    \/ ChatStartStep(RawSids, SweepMsgs) /\ nreq' <= RegRequests
    \/ ChatResumeStep
    \/ SearchStep
    \/ TickWithin(SweepTicks)

SpecSweep == InitLog /\ [][NextSweep]_vars

\* ---------------------------------------------------------------- claims
Cap == MAX_TURNS * 2

\* The stored log of a session id, <<>> when the id has none.
LogOf(sid) == IF sid \in DOMAIN SESSIONS THEN heap[SESSIONS[sid]] ELSE <<>>

NonSystem(l) == Cardinality({i \in 1..Len(l) : l[i].role # "system"})

\* This step is the one in which a NORMAL-path /chat request returns.
Finishing == last'.kind = "chat" /\ last'.id # 0 /\ last'.id # last.id

\* The last handler run was a NORMAL-path /chat request whose trim
\* dropped messages.
Dropped == last.kind = "chat" /\ last.id # 0 /\ Len(last.appended) - 1 > Cap

\* C1: every session of the registry has a non-empty log whose first
\* element is the persona system message, whatever was trimmed.
C1_SystemFirst ==
    \A sid \in DOMAIN SESSIONS :
        /\ SESSIONS[sid] \in DOMAIN heap
        /\ LogOf(sid) # <<>>
        /\ LogOf(sid)[1] = SystemMsg

C1_Witness ==
    /\ Dropped
    /\ last.outcome = "ok"
    /\ last.sid \in DOMAIN SESSIONS
    /\ LogOf(last.sid)[1] = SystemMsg

\* C2: in every reachable state no session stores more than MAX_TURNS * 2
\* non-system messages.
C2_NonSystemWithinCap ==
    \A sid \in DOMAIN SESSIONS : NonSystem(LogOf(sid)) <= Cap

\* C3: the trim of a NORMAL-path request stores the system message
\* followed by the latest min(len(rest), MAX_TURNS*2) messages of the log
\* in their order, the user message just appended being the last; the
\* stored log then has at most MAX_TURNS*2 non-system messages (the reply
\* of a successful completion comes after it).
C3_TrimKeepsLatest ==
    [][Finishing =>
        LET sid == last'.sid
            u == UserMsg(last'.msg)
            pre == last'.appended
            stored == heap'[SESSIONS'[sid]]
            post == IF last'.outcome = "ok"
                    THEN SubSeq(stored, 1, Len(stored) - 1) ELSE stored
            kept == IF Len(pre) - 1 < Cap THEN Len(pre) - 1 ELSE Cap
        IN  /\ sid \in DOMAIN SESSIONS'
            /\ IF last'.id \in DOMAIN handlers
               THEN pre = Append(heap[handlers[last'.id].history], u)
               ELSE \/ pre = <<SystemMsg, u>>
                    \/ sid \in DOMAIN SESSIONS /\ pre = Append(LogOf(sid), u)
            /\ Len(post) = 1 + kept
            /\ post[1] = pre[1]
            /\ \A k \in 1..kept : post[Len(post) - k + 1] = pre[Len(pre) - k + 1]
            /\ post[Len(post)] = u
            /\ Len(post) - 1 <= Cap
            /\ last'.outcome = "ok" =>
                   stored[Len(stored)] = AssistantMsg(last'.reply)
    ]_vars

C3_Witness ==
    /\ Dropped
    /\ last.outcome = "500_api"
    /\ last.sid \in DOMAIN SESSIONS
    /\ Len(LogOf(last.sid)) = 1 + Cap
    /\ LogOf(last.sid)[1 + Cap] = UserMsg(last.msg)

\* C4: no list a session or a handler holds contains a web-context block:
\* each is the persona message followed by user and assistant messages
\* only; the web context is the trailing system entry of the request sent.
IsWebMsg(m) == m.role = "system" /\ m.content # PJ_SYSTEM_PROMPT

C4_WebContextNotStored ==
    /\ \A o \in DOMAIN heap :
           \A i \in 1..Len(heap[o]) :
               IF i = 1 THEN heap[o][i] = SystemMsg
               ELSE heap[o][i].role \in {"user", "assistant"}
    /\ \A i \in 1..Len(last.sent) :
           IsWebMsg(last.sent[i]) =>
               /\ i = Len(last.sent)
               /\ last.sent[i].content[1] = WebHeader
               /\ last.fetches = 1

C4_Witness ==
    /\ last.kind = "chat" /\ last.outcome = "ok"
    /\ Len(last.sent) >= 3
    /\ IsWebMsg(last.sent[Len(last.sent)])
    /\ last.sid \in DOMAIN SESSIONS
    /\ \A i \in 2..Len(LogOf(last.sid)) : ~IsWebMsg(LogOf(last.sid)[i])
    /\ LogOf(last.sid)[Len(LogOf(last.sid))] = AssistantMsg(last.reply)

\* C5: when two NORMAL-path requests on one session id are both suspended
\* in the web search and both get a reply, the one that appends second
\* finds and keeps what the first stored: the log after it is the log the
\* first left (ending with its user message and reply) followed by the
\* second's user message and reply.
C5_NoLostUpdate ==
    [][\A j \in DOMAIN handlers :
        LET sid == handlers[j].sid
            L == LogOf(sid)
        IN  ( /\ last'.id = j /\ j \notin DOMAIN handlers'
              /\ last'.outcome = "ok"
              /\ last.kind = "chat" /\ last.outcome = "ok"
              /\ last.fetches = 1 /\ last.sid = sid
              /\ (last.id \in handlers[j].concurrent \/ j \in last.concurrent)
              /\ Len(L) >= 3
              /\ L[Len(L) - 1] = UserMsg(last.msg)
              /\ L[Len(L)] = AssistantMsg(last.reply)
              /\ Len(L) - 1 + 2 <= Cap )
            => heap'[SESSIONS'[sid]] =
                 L \o <<UserMsg(handlers[j].msg), AssistantMsg(last'.reply)>>
    ]_vars

\* C6: a NORMAL-path request that starts when the latest write of its
\* session's log was the successful return of an earlier request, and
\* whose trim drops nothing, sends a list that holds the earlier
\* request's user message, directly followed by its reply, and later its
\* own user message.
C6_SecondSeesFirst ==
    ( /\ last.kind = "chat" /\ last.id # 0
      /\ last.prev # <<>>
      /\ Len(last.appended) - 1 <= Cap )
    => \E p \in 1..Len(last.sent) : \E q \in (p + 2)..Len(last.sent) :
          /\ last.sent[p] = last.prev[1]
          /\ last.sent[p + 1] = last.prev[2]
          /\ last.sent[q] = UserMsg(last.msg)

C6_Witness ==
    /\ last.kind = "chat" /\ last.outcome = "ok"
    /\ last.prev # <<>>
    /\ Len(last.appended) - 1 <= Cap
    /\ last.fetches = 0
    /\ Len(last.sent) = 4

\* C7: when the completion call of a NORMAL-path request fails, the
\* request ends as a server error after exactly one call, and the stored
\* log of its session ends with its user message: what was sent, without
\* the web context, and no assistant message after it.
C7_FailureKeepsUserMessage ==
    [][(Finishing /\ last'.outcome = "500_api") =>
        LET sid == last'.sid
            stored == heap'[SESSIONS'[sid]]
            sent == last'.sent
            core == IF IsWebMsg(sent[Len(sent)])
                    THEN SubSeq(sent, 1, Len(sent) - 1) ELSE sent
        IN  /\ sid \in DOMAIN SESSIONS'
            /\ stored[Len(stored)] = UserMsg(last'.msg)
            /\ stored = core
            /\ last'.apiCalls = 1
    ]_vars

C7_Witness ==
    /\ last.kind = "chat" /\ last.outcome = "500_api"
    /\ last.sid \in DOMAIN SESSIONS
    /\ Len(LogOf(last.sid)) >= 4
    /\ LogOf(last.sid)[Len(LogOf(last.sid))] = UserMsg(last.msg)
    /\ LogOf(last.sid)[Len(LogOf(last.sid)) - 1].role = "assistant"

\* The last_seen entry of a session id, -1 when the id has none.
MetaOf(sid) == IF sid \in DOMAIN SESSION_META THEN SESSION_META[sid] ELSE -1

BlankSid(rawsid) == StripOf[rawsid] = <<>>
BlankMsg(rawmsg) == StripOf[rawmsg] = <<>>
TimeQuestion(rawmsg) == ~BlankMsg(rawmsg) /\ PlaceOf[rawmsg] \notin {NoText, <<>>}

SweepDue == now - last_cleanup >= CLEANUP_INTERVAL_SECONDS
Expired == {sid \in DOMAIN SESSION_META :
               now - SESSION_META[sid] > SESSION_TTL_SECONDS}

\* C8 as claimed: a /chat request with a blank session id is a client
\* error and leaves the message logs, the last-seen entries and the
\* sweep's last-cleanup time exactly as they were.
C8_BlankSidNoSideEffects ==
    [][\A rawsid \in RawSids, rawmsg \in RawMsgs :
        (BlankSid(rawsid) /\ ChatStart(rawsid, rawmsg)) =>
            /\ last'.kind = "chat" /\ last'.outcome = "400"
            /\ UNCHANGED <<SESSIONS, SESSION_META, heap, last_cleanup>>
    ]_vars

\* C8 amended: a /chat request with a blank session id is a client error
\* that creates and touches no session; all it can do to the registry is
\* the throttled sweep that opens every request: not due, everything is
\* as before; due, _last_cleanup becomes now and exactly the sessions idle
\* for more than SESSION_TTL_SECONDS go, the others being as before.
C8_BlankSidOnlySweeps ==
    [][\A rawsid \in RawSids, rawmsg \in RawMsgs :
        (BlankSid(rawsid) /\ ChatStart(rawsid, rawmsg)) =>
            /\ last'.kind = "chat" /\ last'.outcome = "400"
            /\ UNCHANGED <<handlers, nreq>>
            /\ IF ~SweepDue
               THEN UNCHANGED <<SESSIONS, SESSION_META, heap, last_cleanup>>
               ELSE /\ last_cleanup' = now
                    /\ DOMAIN SESSION_META' = (DOMAIN SESSION_META) \ Expired
                    /\ DOMAIN SESSIONS' = (DOMAIN SESSIONS) \ Expired
                    /\ \A sid \in DOMAIN SESSION_META' :
                           SESSION_META'[sid] = SESSION_META[sid]
                    /\ \A sid \in DOMAIN SESSIONS' : LogOf(sid)' = LogOf(sid)
    ]_vars

C8_Witness ==
    /\ last.kind = "chat" /\ last.outcome = "400"
    /\ nreq >= 1
    /\ DOMAIN SESSIONS = {}
    /\ last_cleanup = now
    /\ DOMAIN SESSION_META # {}

\* C9: a /chat request with a session id and a blank message gets the
\* prompt-for-input reply and leaves the log and the last-seen entry of
\* that session id as they were.
C9_BlankMsgLeavesSession ==
    [][\A rawsid \in RawSids, rawmsg \in RawMsgs :
        (~BlankSid(rawsid) /\ BlankMsg(rawmsg) /\ ChatStart(rawsid, rawmsg)) =>
            /\ last'.kind = "chat" /\ last'.outcome = "prompt"
            /\ LogOf(StripOf[rawsid])' = LogOf(StripOf[rawsid])
            /\ MetaOf(StripOf[rawsid])' = MetaOf(StripOf[rawsid])
    ]_vars

\* C10 as claimed: a /chat request that is a time question is answered
\* without a completion call, and the log of its session id is as before:
\* absent stays absent, an existing one is unchanged.
C10_TimeQuestionLeavesLog ==
    [][\A rawsid \in RawSids, rawmsg \in RawMsgs :
        (~BlankSid(rawsid) /\ TimeQuestion(rawmsg) /\ ChatStart(rawsid, rawmsg)) =>
            /\ last'.kind = "chat" /\ last'.outcome \in {"time", "time_help"}
            /\ last'.apiCalls = 0 /\ nreq' = nreq
            /\ LogOf(StripOf[rawsid])' = LogOf(StripOf[rawsid])
    ]_vars

\* C10 amended: a /chat request that is a time question is answered
\* without a completion call and never creates or appends to the log of
\* its session id: absent stays absent, and an existing log is unchanged
\* unless the sweep that opens the request is due and evicts the session
\* as idle for more than SESSION_TTL_SECONDS.
C10_TimeQuestionNeverWritesLog ==
    [][\A rawsid \in RawSids, rawmsg \in RawMsgs :
        (~BlankSid(rawsid) /\ TimeQuestion(rawmsg) /\ ChatStart(rawsid, rawmsg)) =>
            LET sid == StripOf[rawsid]
            IN  /\ last'.kind = "chat"
                /\ last'.outcome \in {"time", "time_help"}
                /\ last'.apiCalls = 0 /\ nreq' = nreq
                /\ \/ LogOf(sid)' = LogOf(sid)
                   \/ /\ LogOf(sid)' = <<>>
                      /\ SweepDue
                      /\ sid \in Expired
    ]_vars

C10_Witness ==
    /\ last.kind = "chat" /\ last.outcome = "time"
    /\ last.sid \in DOMAIN SESSIONS
    /\ Len(LogOf(last.sid)) >= 2
    /\ MetaOf(last.sid) = now

\* A message that takes a request past the time shortcut (line 207).
NormalPath(rawmsg) == ~BlankMsg(rawmsg) /\ PlaceOf[rawmsg] \in {NoText, <<>>}

\* C11: a NORMAL-path /chat request made while OPENAI_API_KEY is missing
\* ends as a server error without a completion call, without a web-search
\* fetch (no handler is suspended) and without a second attempt, and the
\* message log of its session id is as before: an absent id has no log
\* afterwards and nothing is appended to an existing one.
C11_MissingKeyLeavesLog ==
    [][~api_key =>
        \A rawsid \in RawSids, rawmsg \in RawMsgs :
          (~BlankSid(rawsid) /\ NormalPath(rawmsg) /\ ChatStart(rawsid, rawmsg)) =>
            LET sid == StripOf[rawsid]
            IN  /\ last'.kind = "chat" /\ last'.outcome = "500_key"
                /\ last'.apiCalls = 0 /\ last'.fetches = 0
                /\ UNCHANGED <<handlers, nreq>>
                /\ LogOf(sid)' = LogOf(sid)
                /\ sid \notin DOMAIN SESSIONS => sid \notin DOMAIN SESSIONS'
    ]_vars

C11_Witness ==
    /\ ~api_key
    /\ last.kind = "chat" /\ last.outcome = "500_key"
    /\ last.sid \notin DOMAIN SESSIONS
    /\ MetaOf(last.sid) = now
    /\ handlers = <<>> /\ nreq = 0

\* The clock values from now to the end of the behaviours of SpecSweep:
\* the times at which the next request can arrive.
LaterTimes == now..(StartTime + SweepTicks)

\* C12: when a sweep runs at time t on the registry of any reachable
\* state, afterwards no session id is left in SESSIONS or SESSION_META
\* whose last activity is more than SESSION_TTL_SECONDS before t, and
\* every session idle for at most SESSION_TTL_SECONDS is as it was.  The
\* last activity of an id is its last-seen entry; an id that has a log but
\* no last-seen entry was last active no later than now, the time of the
\* state it is found in.
C12_SweepEvictsAllExpired ==
    \A t \in LaterTimes :
        LET sw == Sweep(SESSIONS, SESSION_META, last_cleanup, t)
            Seen(sid) == IF sid \in DOMAIN SESSION_META
                         THEN SESSION_META[sid] ELSE now
        IN  sw.ran =>
              /\ \A sid \in (DOMAIN sw.S) \cup (DOMAIN sw.M) :
                     t - Seen(sid) <= SESSION_TTL_SECONDS
              /\ \A sid \in (DOMAIN SESSIONS) \cup (DOMAIN SESSION_META) :
                     t - Seen(sid) <= SESSION_TTL_SECONDS =>
                       /\ sid \in DOMAIN SESSION_META =>
                              /\ sid \in DOMAIN sw.M
                              /\ sw.M[sid] = SESSION_META[sid]
                       /\ sid \in DOMAIN SESSIONS =>
                              /\ sid \in DOMAIN sw.S
                              /\ sw.S[sid] = SESSIONS[sid]

\* C13: however many requests arrive, a sweep that scans the registry
\* (it stamps _last_cleanup) runs at least CLEANUP_INTERVAL_SECONDS after
\* the one before it, and a request that arrives less than
\* CLEANUP_INTERVAL_SECONDS after the last scan does not scan: the stamp
\* stays and no session id leaves SESSIONS or SESSION_META.
C13_SweepThrottled ==
    [][/\ last_cleanup' # last_cleanup =>
              /\ last_cleanup' = now
              /\ now - last_cleanup >= CLEANUP_INTERVAL_SECONDS
       /\ (now' = now /\ now - last_cleanup < CLEANUP_INTERVAL_SECONDS) =>
              /\ last_cleanup' = last_cleanup
              /\ DOMAIN SESSION_META \subseteq DOMAIN SESSION_META'
              /\ DOMAIN SESSIONS \subseteq DOMAIN SESSIONS'
    ]_vars

\* A request has arrived now, after the last scan and within the interval,
\* and a session that has expired since is still there.
C13_Witness ==
    /\ last_cleanup < now
    /\ now - last_cleanup < CLEANUP_INTERVAL_SECONDS
    /\ Expired # {}
    /\ \E sid \in DOMAIN SESSION_META : SESSION_META[sid] = now

\* C14: the sweep invoked twice at the same time, nothing in between: the
\* second invocation removes nothing and leaves SESSIONS, SESSION_META and
\* _last_cleanup as the first left them.
C14_SweepIdempotent ==
    LET first == Sweep(SESSIONS, SESSION_META, last_cleanup, now)
        second == Sweep(first.S, first.M, first.lc, now)
    IN  /\ second.dead = {}
        /\ second.S = first.S
        /\ second.M = first.M
        /\ second.lc = first.lc

\* The first invocation is due, removes a session with its log and keeps
\* another.
C14_Witness ==
    /\ SweepDue
    /\ Expired \cap DOMAIN SESSIONS # {}
    /\ (DOMAIN SESSION_META) \ Expired # {}

\* The awaited GET raised: transport error, HTTP-status error or timeout.
FetchFailed == [ok |-> FALSE, page |-> <<>>]

\* C15: when the web-search fetch of a NORMAL-path request fails, the
\* handler goes on as it does without enrichment: it appends the user
\* message, sends the trimmed history with no web-context entry in one
\* completion call, and the outcome is that of the completion call alone:
\* the reply is returned and stored when there is one.
C15_FetchFailureIsSoft ==
    [][\A r \in DOMAIN handlers, comp \in CompletionOutcomes :
        ChatResume(r, FetchFailed, comp) =>
            LET h == handlers[r]
                u == UserMsg(h.msg)
            IN  /\ last'.kind = "chat" /\ last'.id = r
                /\ last'.apiCalls = 1
                /\ last'.appended = Append(heap[h.history], u)
                /\ last'.sent = TrimHistory(last'.appended)
                /\ last'.sent[Len(last'.sent)] = u
                /\ \A i \in 1..Len(last'.sent) : ~IsWebMsg(last'.sent[i])
                /\ last'.outcome = IF comp.ok THEN "ok" ELSE "500_api"
                /\ h.sid \in DOMAIN SESSIONS'
                /\ comp.ok =>
                       /\ last'.reply = comp.reply
                       /\ heap'[SESSIONS'[h.sid]] =
                              Append(last'.sent, AssistantMsg(comp.reply))
    ]_vars

C15_Witness ==
    /\ last.kind = "chat" /\ last.fetchFailed
    /\ last.outcome = "ok"
    /\ Len(last.sent) >= 4
    /\ last.sid \in DOMAIN SESSIONS
    /\ LogOf(last.sid) = Append(last.sent, AssistantMsg(last.reply))

\* The entries of l are entries of the anchors of page, taken in page
\* order.
InPageOrder(l, page) ==
    \E f \in [1..Len(l) -> 1..Len(page)] :
        /\ \A i \in 1..Len(l) :
               l[i] = [title |-> page[f[i]].title, url |-> page[f[i]].href]
        /\ \A i \in 1..Len(l), j \in 1..Len(l) : i < j => f[i] < f[j]

\* C16: whatever the query, the result page and the integer limit, the
\* list ddg_search returns has at most limit entries, each with a
\* non-empty title and a non-empty url, in the order of the anchors of
\* the page.
C16_FetchWithinLimit ==
    last.kind = "ddg_search" =>
        /\ Len(last.results) <= last.limit
        /\ \A i \in 1..Len(last.results) :
               last.results[i].title # "" /\ last.results[i].url # ""
        /\ InPageOrder(last.results, last.page)

\* This step is the one in which the suspended handler r resumes and
\* returns.
Resuming(r) ==
    r \in DOMAIN handlers /\ r \notin DOMAIN handlers' /\ last'.id = r

\* C17: a handler whose session a sweep removed while it was suspended in
\* the web search, and which finds the session absent when it resumes,
\* ends without an absent-session failure, and the session is there again
\* as one created anew: the system message, the handler's user message,
\* and the reply when the completion succeeds.
C17_EvictedSessionRecreated ==
    [][\A r \in DOMAIN handlers :
       \A sid \in {handlers[r].sid}, u \in {UserMsg(handlers[r].msg)} :
        (Resuming(r) /\ sid \notin DOMAIN SESSIONS) =>
            /\ last'.outcome \in {"ok", "500_api"}
            /\ sid \in DOMAIN SESSIONS'
            /\ LogOf(sid)' =
                  IF last'.outcome = "ok"
                  THEN <<SystemMsg, u, AssistantMsg(last'.reply)>>
                  ELSE <<SystemMsg, u>>
    ]_vars

\* C18: in every reachable state every session id with a stored message
\* log has a last-seen entry.
C18_LogHasLastSeen ==
    DOMAIN SESSIONS \subseteq DOMAIN SESSION_META

\* C19: in every reachable state, whatever the requests and their
\* interleaving, no session stores more than MAX_TURNS * 2 + 1 non-system
\* messages: the trimmed window and at most the one reply appended after
\* the trim.
C19_NonSystemWithinCapPlusReply ==
    \A sid \in DOMAIN SESSIONS : NonSystem(LogOf(sid)) <= Cap + 1

\* A request whose trim dropped messages has stored its reply: the log is
\* at the bound.
C19_Witness ==
    /\ Dropped
    /\ last.outcome = "ok"
    /\ last.sid \in DOMAIN SESSIONS
    /\ NonSystem(LogOf(last.sid)) = Cap + 1
    /\ LogOf(last.sid)[Len(LogOf(last.sid))] = AssistantMsg(last.reply)

\* The list the last handler run sent: the persona system message first,
\* the request's own user message last or last but a web-context entry.
SentShape ==
    LET s == last.sent
        n == Len(s)
    IN  /\ n >= 2
        /\ s[1] = SystemMsg
        /\ \/ s[n] = UserMsg(last.msg)
           \/ /\ n >= 3
              /\ s[n] \in {WebMsg(WebContext(ddg_search(p, 5))) : p \in Pages}
              /\ s[n].content # NoText
              /\ s[n - 1] = UserMsg(last.msg)

\* The log of the last handler run's session ends with the request's own
\* user message and, after it, the reply.
ReplyAfterOwnUser ==
    LET l == LogOf(last.sid)
        n == Len(l)
    IN  /\ n >= 3
        /\ l[n] = AssistantMsg(last.reply)
        /\ l[n - 1] = UserMsg(last.msg)

\* C20: under any interleaving of handlers, every list sent to the
\* completion endpoint starts with the persona system message and ends with
\* the request's own user message, followed by at most one web-context
\* entry; and when the reply is appended to the stored log, the element
\* before it is that request's user message.
C20_SentListAndReplyPlace ==
    [][(Finishing /\ last'.apiCalls = 1) =>
           /\ SentShape'
           /\ last'.outcome = "ok" => ReplyAfterOwnUser']_vars

\* A request that was suspended together with another handler of its
\* session has sent its list with the web context and stored its reply.
C20_Witness ==
    /\ last.kind = "chat"
    /\ last.outcome = "ok"
    /\ last.concurrent # {}
    /\ Len(last.sent) >= 3
    /\ last.sent[Len(last.sent)].role = "system"
    /\ SentShape
    /\ ReplyAfterOwnUser

====
